---------------------------- MODULE Spec2Model ----------------------------
(***************************************************************************)
(* Safe-Link Sandbox: the risk-scoring and verdict-fusion engine.          *)
(*                                                                         *)
(* analyzer.js  : isValidUrl, analyzeDomain, analyzeContent,               *)
(*                analyzeNetworkRequests, determineRiskLevel, analyzeUrl,  *)
(*                quickCheck                                               *)
(* ai-analyzer.js: analyzeWithAI, parseAIResponse, mergeAnalysisResults    *)
(* server.js    : POST /api/analyze, /api/quick-check, /api/batch-check    *)
(*                                                                         *)
(* Host names are sequences of one-character strings, so that the regular  *)
(* expressions of the analyzers are evaluated on the text they see.  The   *)
(* Cyrillic letter U+044F is written "U+044F".  Issue texts are the        *)
(* English renderings of the Korean literals of the source.                *)
(***************************************************************************)
EXTENDS Integers, Sequences, FiniteSets, TLC

(***************************************************************************)
(* Bounds of the model.                                                    *)
(***************************************************************************)
\* longest run of repeated leading labels put in front of a host name
MaxSub == 4
\* longest list of URLs sent to /api/batch-check (besides the over-long one)
MaxBatch == 3

(***************************************************************************)
(* Characters and text.                                                    *)
(***************************************************************************)
Digits == <<"0", "1", "2", "3", "4", "5", "6", "7", "8", "9">>

IsDigit(c) == \E i \in 1..10 : Digits[i] = c

DigitVal(c) == (CHOOSE i \in 1..10 : Digits[i] = c) - 1

IsCyrillic(c) == c = "U+044F"

ToLowerChar(c) ==
    CASE c = "T" -> "t"
      [] c = "K" -> "k"
      [] OTHER -> c

ToLower(s) == [i \in 1..Len(s) |-> ToLowerChar(s[i])]

AllDigits(s) == Len(s) > 0 /\ \A i \in 1..Len(s) : IsDigit(s[i])

RECURSIVE DecimalValue(_)
DecimalValue(s) ==
    IF s = <<>> THEN 0
    ELSE 10 * DecimalValue(SubSeq(s, 1, Len(s) - 1)) + DigitVal(s[Len(s)])

RECURSIVE DecimalText(_)
DecimalText(n) ==
    IF n < 10 THEN <<Digits[n + 1]>>
    ELSE DecimalText(n \div 10) \o <<Digits[(n % 10) + 1]>>

\* labels joined by "."
RECURSIVE JoinDots(_)
JoinDots(labels) ==
    IF labels = <<>> THEN <<>>
    ELSE IF Len(labels) = 1 THEN labels[1]
    ELSE labels[1] \o <<".">> \o JoinDots(Tail(labels))

\* String.prototype.split('.')
RECURSIVE SplitDots(_)
SplitDots(s) ==
    IF \A i \in 1..Len(s) : s[i] # "." THEN <<s>>
    ELSE LET k == CHOOSE i \in 1..Len(s) :
                      s[i] = "." /\ \A j \in 1..(i - 1) : s[j] # "."
         IN  <<SubSeq(s, 1, k - 1)>> \o SplitDots(SubSeq(s, k + 1, Len(s)))

RECURSIVE Power(_, _)
Power(b, e) == IF e = 0 THEN 1 ELSE b * Power(b, e - 1)

RECURSIVE SumSeq(_)
SumSeq(s) == IF s = <<>> THEN 0 ELSE Head(s) + SumSeq(Tail(s))

\* a cap that does not cap, to test that the score bounds depend on the caps
Uncapped(a, b) == a

\* Math.min
Min(a, b) == IF a <= b THEN a ELSE b

\* the milder of two ranks, to test that the fused level depends on Math.max
LessSevere(a, b) == IF a <= b THEN a ELSE b

\* Math.max
Max(a, b) == IF a >= b THEN a ELSE b

(***************************************************************************)
(* new URL(input): the WHATWG parser as far as the analyzers read it.      *)
(* An input is the text  scheme "://" host [":" port] "/..."  given by its *)
(* parts; scheme "" stands for text with no scheme at all.                 *)
(***************************************************************************)
SpecialSchemes == {"http", "https", "ftp"}

DefaultPort(scheme) ==
    CASE scheme = "http" -> "80"
      [] scheme = "https" -> "443"
      [] scheme = "ftp" -> "21"
      [] OTHER -> ""

\* domain-to-ASCII of one label: lower-cased; a label with non-ASCII letters
\* becomes its Punycode form ("xn--41a" for the single letter U+044F)
LabelToASCII(label) ==
    LET lower == ToLower(label)
        basic == SelectSeq(lower, LAMBDA c : ~IsCyrillic(c))
        extra == SelectSeq(lower, LAMBDA c : IsCyrillic(c))
    IN  IF extra = <<>> THEN lower
        ELSE <<"x", "n", "-", "-">> \o basic
             \o (IF basic = <<>> THEN <<>> ELSE <<"-">>)
             \o <<"4", "1", "a">>

\* the number v written as k digits of base 256, most significant first
RECURSIVE Base256(_, _)
Base256(v, k) ==
    IF k = 0 THEN <<>> ELSE Base256(v \div 256, k - 1) \o <<v % 256>>

\* the IPv4 parser: a failure, or the four bytes of the address.  Every part
\* but the last is one byte; the last part fills the bytes that remain.
IPv4Bytes(labels) ==
    LET n == Len(labels)
        vals == [i \in 1..n |-> DecimalValue(labels[i])]
    IN  IF n > 4 THEN [ok |-> FALSE]
        ELSE IF \E i \in 1..n : ~AllDigits(labels[i]) THEN [ok |-> FALSE]
        ELSE IF \E i \in 1..(n - 1) : vals[i] > 255 THEN [ok |-> FALSE]
        ELSE IF vals[n] \div Power(256, 4 - n) >= 256 THEN [ok |-> FALSE]
        ELSE [ok |-> TRUE,
              bytes |-> SubSeq(vals, 1, n - 1) \o Base256(vals[n], 5 - n)]

IPv4Text(bytes) == JoinDots([i \in 1..4 |-> DecimalText(bytes[i])])

\* the host serializer, given the result of the IPv4 parser
IPv4Host(ipv4) ==
    IF ipv4.ok THEN [ok |-> TRUE, text |-> IPv4Text(ipv4.bytes)] ELSE [ok |-> FALSE]

\* a host whose last label is a number is an IPv4 address and is rewritten
\* as a dotted quad
SerializeHost(ascii) ==
    IF AllDigits(ascii[Len(ascii)]) THEN IPv4Host(IPv4Bytes(ascii))
    ELSE [ok |-> TRUE, text |-> JoinDots(ascii)]

\* host parsing: a failure, or the serialized host
ParseHost(labels) ==
    IF labels = <<>> \/ \E i \in 1..Len(labels) : labels[i] = <<>>
    THEN [ok |-> FALSE]
    ELSE SerializeHost([i \in 1..Len(labels) |-> LabelToASCII(labels[i])])

\* the URL record, given the parsed host
UrlRecord(input, host) ==
    IF input.scheme = "" THEN [ok |-> FALSE]
    ELSE IF input.scheme \in SpecialSchemes /\ ~host.ok
    THEN [ok |-> FALSE]
    ELSE [ok       |-> TRUE,
          protocol |-> input.scheme \o ":",
          hostname |-> IF input.scheme \in SpecialSchemes THEN host.text ELSE <<>>,
          port     |-> IF input.port = DefaultPort(input.scheme)
                       THEN "" ELSE input.port]

\* new URL(input): ok = FALSE is the TypeError it throws
ParseURL(input) == UrlRecord(input, ParseHost(input.host))

(***************************************************************************)
(* analyzer.js                                                              *)
(***************************************************************************)
RISK_THRESHOLDS_SAFE == 30
RISK_THRESHOLDS_WARNING == 70

DOMAIN_CAP == 40
CONTENT_CAP == 50
NETWORK_CAP == 20
TOTAL_CAP == 100

FreeTlds == {<<"t", "k">>, <<"m", "l">>, <<"g", "a">>, <<"c", "f">>, <<"g", "q">>}

\* /\d{4,}/
HasLongDigitRun(s) ==
    \E i \in 1..(Len(s) - 3) : \A j \in i..(i + 3) : IsDigit(s[j])

\* /-{2,}/
HasDoubleHyphen(s) ==
    \E i \in 1..(Len(s) - 1) : s[i] = "-" /\ s[i + 1] = "-"

\* /\.(tk|ml|ga|cf|gq)$/i
HasFreeTld(s) ==
    /\ Len(s) >= 3
    /\ s[Len(s) - 2] = "."
    /\ ToLower(SubSeq(s, Len(s) - 1, Len(s))) \in FreeTlds

\* /[U+0430-U+044F U+0410-U+042F]/
HasCyrillic(s) == \E i \in 1..Len(s) : IsCyrillic(s[i])

\* SUSPICIOUS_DOMAIN_PATTERNS, in order
SUSPICIOUS_DOMAIN_PATTERNS(s) ==
    <<HasLongDigitRun(s), HasDoubleHyphen(s), HasFreeTld(s), HasCyrillic(s)>>

\* /^\d+\.\d+\.\d+\.\d+$/
IsIPv4Literal(s) ==
    LET parts == SplitDots(s)
    IN  Len(parts) = 4 /\ \A i \in 1..4 : AllDigits(parts[i])

\* a validation that accepts every URL that parses, to test that the
\* rejection of other schemes depends on the protocol test
ParsedAtAll(parsed) == parsed.ok

\* ['http:', 'https:'].includes(parsed.protocol), false when new URL threw
HasWebProtocol(parsed) ==
    IF ~parsed.ok THEN FALSE ELSE parsed.protocol \in {"http:", "https:"}

isValidUrl(url) == HasWebProtocol(ParseURL(url))

\* the points and issue of each rule of analyzeDomain, in source order, for
\* the parsed URL; a rule that does not trigger contributes 0 points and no
\* issue
DomainRules(parsed) ==
    LET domain == parsed.hostname
        subdomains == Len(SplitDots(domain)) - 2
    IN  << IF IsIPv4Literal(domain)
           THEN [points |-> 25, issue |-> <<"direct IP address access">>]
           ELSE [points |-> 0, issue |-> <<>>],
           IF \E i \in 1..4 : SUSPICIOUS_DOMAIN_PATTERNS(domain)[i]
           THEN [points |-> 15, issue |-> <<"suspicious domain pattern">>]
           ELSE [points |-> 0, issue |-> <<>>],
           IF subdomains > 3
           THEN [points |-> 10,
                 issue |-> <<"excessive subdomains (" \o ToString(subdomains) \o ")">>]
           ELSE [points |-> 0, issue |-> <<>>],
           IF parsed.protocol # "https:"
           THEN [points |-> 15, issue |-> <<"HTTPS not used">>]
           ELSE [points |-> 0, issue |-> <<>>],
           IF parsed.port # "" /\ parsed.port \notin {"80", "443", ""}
           THEN [points |-> 10,
                 issue |-> <<"non-standard port (" \o parsed.port \o ")">>]
           ELSE [points |-> 0, issue |-> <<>>] >>

RECURSIVE RuleIssues(_)
RuleIssues(rules) ==
    IF rules = <<>> THEN <<>> ELSE Head(rules).issue \o RuleIssues(Tail(rules))

RulePoints(rules) == SumSeq([i \in 1..Len(rules) |-> rules[i].points])

\* score += points for each rule, then Math.min(score, cap)
ScoreRules(rules, cap) ==
    [score |-> Min(RulePoints(rules), cap), issues |-> RuleIssues(rules)]

analyzeDomain(url) == ScoreRules(DomainRules(ParseURL(url)), DOMAIN_CAP)

determineRiskLevel(score) ==
    IF score <= RISK_THRESHOLDS_SAFE THEN "safe"
    ELSE IF score <= RISK_THRESHOLDS_WARNING THEN "warning"
    ELSE "danger"

\* a quick check with thresholds of its own (score < 30 is safe, score < 70
\* is warning), to test that the quick path depends on the shared function
QuickResultOwnThresholds(url, domainAnalysis) ==
    [url |-> url, valid |-> TRUE, riskScore |-> domainAnalysis.score,
     riskLevel |-> IF domainAnalysis.score < RISK_THRESHOLDS_SAFE THEN "safe"
                   ELSE IF domainAnalysis.score < RISK_THRESHOLDS_WARNING
                   THEN "warning" ELSE "danger",
     issues |-> domainAnalysis.issues,
     message |-> "domain analysis"]

\* the result of quickCheck for a valid URL (lines 464-476)
QuickResult(url, domainAnalysis) ==
    [url |-> url, valid |-> TRUE, riskScore |-> domainAnalysis.score,
     riskLevel |-> determineRiskLevel(domainAnalysis.score),
     issues |-> domainAnalysis.issues,
     message |-> IF Len(domainAnalysis.issues) > 0
                 THEN "risk factors found in domain analysis"
                 ELSE "domain analysis passed"]

quickCheck(url) ==
    IF ~isValidUrl(url)
    THEN [url |-> url, valid |-> FALSE, riskScore |-> 0, riskLevel |-> "unknown",
          message |-> "invalid URL format"]
    ELSE QuickResult(url, analyzeDomain(url))

(***************************************************************************)
(* Inputs.                                                                  *)
(***************************************************************************)
Labels ==
    { <<"a">>, <<"c", "o", "m">>, <<"7">>, <<"2", "0", "2", "4">>,
      <<"a", "-", "-", "b">>, <<"T", "K">>, <<"U+044F">> }

SubLabels == { <<"a">>, <<"7">> }

Repeat(label, k) == [i \in 1..k |-> label]

\* host names: up to MaxSub copies of one leading label, then one or two labels
Hosts ==
    { Repeat(s, k) \o t :
        s \in SubLabels, k \in 0..MaxSub,
        t \in { <<l>> : l \in Labels } \cup { <<l1, l2>> : l1 \in Labels, l2 \in Labels } }
    \cup { <<>> }

Ports == {"", "80", "443", "8080"}

Schemes == {"http", "https", "ftp", ""}

UrlInputs == [scheme : Schemes, host : Hosts, port : Ports]

(***************************************************************************)
(* analyzeContent: the rules over what the three page.evaluate calls give. *)
(* Page text and script text are sequences of tokens; "\n" is a line       *)
(* break, " " white space.                                                  *)
(***************************************************************************)
LowerWord(w) ==
    CASE w = "Login" -> "login"
      [] w = "VERIFY" -> "verify"
      [] OTHER -> w

\* /a.*b/i : a, then b later on the same line
MatchesPair(text, a, b) ==
    \E i \in 1..Len(text) : \E j \in (i + 1)..Len(text) :
        /\ LowerWord(text[i]) = a
        /\ LowerWord(text[j]) = b
        /\ \A k \in i..j : text[k] # "\n"

PHISHING_PATTERNS ==
    << <<"login", "verify">>, <<"account", "suspend">>, <<"urgent", "action">>,
       <<"password", "expire">>, <<"verify", "identity">>, <<"security", "alert">>,
       <<"confirm", "bank">>, <<"update", "payment">> >>

MatchesPhishing(text) ==
    \E p \in 1..Len(PHISHING_PATTERNS) :
        MatchesPair(text, PHISHING_PATTERNS[p][1], PHISHING_PATTERNS[p][2])

IsSpace(t) == t \in {" ", "\n"}

\* /name\s*tail/ : the token name, any white space, then the token tail
MatchesCall(js, name, tail) ==
    \E i \in 1..Len(js) : \E j \in (i + 1)..Len(js) :
        /\ js[i] = name
        /\ js[j] = tail
        /\ \A k \in (i + 1)..(j - 1) : IsSpace(js[k])

\* /document\.write/ : the three tokens in a row
MatchesRun(js, run) ==
    \E i \in 1..(Len(js) - Len(run) + 1) : SubSeq(js, i, i + Len(run) - 1) = run

\* MALICIOUS_SCRIPT_PATTERNS, in order
MALICIOUS_SCRIPT_PATTERNS(js) ==
    << MatchesCall(js, "eval", "("),
       MatchesRun(js, <<"document", ".", "write">>),
       MatchesCall(js, "window.location", "="),
       MatchesCall(js, "innerHTML", "="),
       MatchesRun(js, <<"fromCharCode">>),
       MatchesCall(js, "unescape", "("),
       MatchesRun(js, <<"btoa">>) \/ MatchesRun(js, <<"atob">>) >>

MatchesMalicious(js) == \E p \in 1..7 : MALICIOUS_SCRIPT_PATTERNS(js)[p]

\* the function evaluated in the page for the forms (lines 145-159)
FormInfo(dom) ==
    [formCount         |-> Len(dom.forms),
     hasPasswordField  |-> dom.passwordFields > 0,
     hiddenFieldCount  |-> dom.hiddenFields,
     hasExternalAction |-> \E i \in 1..Len(dom.forms) :
                               dom.forms[i].startsWithHttp /\ ~dom.forms[i].includesHostname]

\* a rule on the page text that adds its points for every phrase pattern
\* that matches, to test that the score depends on the break of the loop
TextRulePerPattern(pageText) ==
    [points |-> 20 * Cardinality({ p \in 1..Len(PHISHING_PATTERNS) :
                      MatchesPair(pageText, PHISHING_PATTERNS[p][1], PHISHING_PATTERNS[p][2]) }),
     issue  |-> IF MatchesPhishing(pageText)
                THEN <<"suspected phishing phrasing">> ELSE <<>>]

\* the rule on the page text (lines 136-142)
TextRule(pageText) ==
    IF MatchesPhishing(pageText)
    THEN [points |-> 20, issue |-> <<"suspected phishing phrasing">>]
    ELSE [points |-> 0, issue |-> <<>>]

\* the three rules on the forms (lines 161-174)
FormRules(formInfo) ==
    << IF formInfo.hasPasswordField
       THEN [points |-> 10, issue |-> <<"password field present">>]
       ELSE [points |-> 0, issue |-> <<>>],
       IF formInfo.hasExternalAction
       THEN [points |-> 25, issue |-> <<"form submits to external server">>]
       ELSE [points |-> 0, issue |-> <<>>],
       IF formInfo.hiddenFieldCount > 5
       THEN [points |-> 10,
             issue |-> <<"many hidden fields (" \o ToString(formInfo.hiddenFieldCount) \o ")">>]
       ELSE [points |-> 0, issue |-> <<>>] >>

\* the rule on the scripts (lines 181-187)
ScriptRule(scripts) ==
    IF MatchesMalicious(scripts)
    THEN [points |-> 15, issue |-> <<"suspicious script pattern">>]
    ELSE [points |-> 0, issue |-> <<>>]

\* score += points and issues.push(issue) for the rules that trigger
AddRules(acc, rules) ==
    [score  |-> acc.score + RulePoints(rules),
     issues |-> acc.issues \o RuleIssues(rules)]

\* a catch that counts the failure as a finding of 10 points, to test that
\* the score after a failure depends on the catch adding none
AddErrorWithPoints(acc, message) ==
    [score  |-> acc.score + 10,
     issues |-> Append(acc.issues, "content analysis error: " \o message)]

\* the catch of analyzeContent (line 190)
AddError(acc, message) ==
    [score  |-> acc.score,
     issues |-> Append(acc.issues, "content analysis error: " \o message)]

\* the return of analyzeContent (line 193)
ContentReturn(score, issues) ==
    [score |-> Min(score, CONTENT_CAP), issues |-> issues]

\* the return of analyzeContent for the score and the issues gathered
ContentOf(acc) == ContentReturn(acc.score, acc.issues)

(***************************************************************************)
(* analyzeNetworkRequests                                                   *)
(***************************************************************************)
DISTINCT_HOST_LIMIT == 10

\* the loop of lines 209-221: each request with its URL parsed
ParsedRequests(requests) ==
    [i \in 1..Len(requests) |->
        [parsed         |-> ParseURL(requests[i].url),
         resourceType   |-> requests[i].resourceType,
         originalDomain |-> requests[i].originalDomain]]

\* externalDomains: the Set of host names of the requests whose URL parses
\* (the others are skipped by the catch), in order of first insertion
FirstOfHost(parsedRequests, i) ==
    /\ parsedRequests[i].parsed.ok
    /\ \A j \in 1..(i - 1) :
          ~parsedRequests[j].parsed.ok
          \/ parsedRequests[j].parsed.hostname # parsedRequests[i].parsed.hostname

HostnamesAt(parsedRequests, firsts) ==
    [k \in 1..Len(firsts) |-> parsedRequests[firsts[k]].parsed.hostname]

DistinctHostnames(parsedRequests) ==
    HostnamesAt(parsedRequests,
                SelectSeq([i \in 1..Len(parsedRequests) |-> i],
                          LAMBDA i : FirstOfHost(parsedRequests, i)))

\* suspiciousRequests: scripts loaded from another host than the page's
SuspiciousRequests(parsedRequests) ==
    SelectSeq(parsedRequests,
              LAMBDA r : r.parsed.ok /\ r.resourceType = "script"
                         /\ r.parsed.hostname # r.originalDomain)

NetworkRules(externalDomains, suspiciousRequests) ==
    << IF Len(externalDomains) > DISTINCT_HOST_LIMIT
       THEN [points |-> 10,
             issue |-> <<"many external domain requests ("
                         \o ToString(Len(externalDomains)) \o ")">>]
       ELSE [points |-> 0, issue |-> <<>>],
       IF Len(suspiciousRequests) > 0
       THEN [points |-> 10,
             issue |-> <<"external script loads ("
                         \o ToString(Len(suspiciousRequests)) \o ")">>]
       ELSE [points |-> 0, issue |-> <<>>] >>

\* the return of analyzeNetworkRequests (lines 233-238)
NetworkReturn(scored, externalDomains, requestCount) ==
    [score           |-> scored.score,
     issues          |-> scored.issues,
     externalDomains |-> externalDomains,
     requestCount    |-> requestCount]

NetworkResult(parsedRequests, externalDomains) ==
    NetworkReturn(ScoreRules(NetworkRules(externalDomains,
                                          SuspiciousRequests(parsedRequests)),
                             NETWORK_CAP),
                  externalDomains, Len(parsedRequests))

NetworkOfParsed(parsedRequests) ==
    NetworkResult(parsedRequests, DistinctHostnames(parsedRequests))

analyzeNetworkRequests(requests) == NetworkOfParsed(ParsedRequests(requests))

(***************************************************************************)
(* The navigation outcome (analyzeUrl, lines 335-346).  An error message   *)
(* is a sequence of words; null is the absence of a message.               *)
(***************************************************************************)
NullError == [isNull |-> TRUE, message |-> <<>>]

ErrorOf(message) == [isNull |-> FALSE, message |-> message]

\* String.prototype.includes, on the words of a message
Includes(message, word) == \E i \in 1..Len(message) : message[i] = word

\* if (navigationError)
Truthy(error) == ~error.isNull /\ error.message # <<>>

NavigationOutcome(navigationError) ==
    IF Truthy(navigationError) /\ Includes(navigationError.message, "timeout")
    THEN [score |-> 10, issues |-> <<"page load timeout">>]
    ELSE IF Truthy(navigationError) /\ Includes(navigationError.message, "net::ERR_")
    THEN [score |-> 5, issues |-> <<"network error">>]
    ELSE [score |-> 0, issues |-> <<>>]

(***************************************************************************)
(* JavaScript numbers as the fusion sees them.                             *)
(***************************************************************************)
Num(n) == [t |-> "number", v |-> n]
NaN == [t |-> "NaN", v |-> 0]
Undefined == [t |-> "undefined", v |-> 0]

\* a weighting that truncates instead of rounding, to test that the fused
\* score depends on Math.round
WeightedFloor(h, a) ==
    IF h.t = "number" /\ a.t = "number"
    THEN [t |-> "number", v |-> (4 * h.v + 6 * a.v) \div 10]
    ELSE [t |-> "NaN", v |-> 0]

\* Math.round(h * 0.4 + a * 0.6) for integers h and a: the exact value is a
\* multiple of 0.2, so rounding half up is floor((4h + 6a + 5) / 10)
WeightedRound(h, a) ==
    IF h.t = "number" /\ a.t = "number"
    THEN Num((4 * h.v + 6 * a.v + 5) \div 10)
    ELSE NaN

\* the heuristic result (lines 374-402), without the clock readings, from
\* the analyses and the total sc
HeuristicResult(url, sc, screenshot, navigationError) ==
    [url        |-> url,
     riskScore  |-> Num(sc.totalScore),
     riskLevel  |-> determineRiskLevel(sc.totalScore),
     screenshot |-> screenshot,
     details    |->
        [domain     |-> [score  |-> sc.domainAnalysis.score,
                         issues |-> sc.domainAnalysis.issues],
         content    |-> [score  |-> sc.contentAnalysis.score,
                         issues |-> sc.contentAnalysis.issues],
         network    |-> sc.networkAnalysis,
         navigation |-> [score  |-> sc.navigation.score,
                         issues |-> sc.navigation.issues,
                         error  |-> navigationError]]]

\* totalScore (lines 349-355)
TotalScore(domainAnalysis, contentAnalysis, networkAnalysis, navigationScore) ==
    Min(domainAnalysis.score + contentAnalysis.score + networkAnalysis.score
        + navigationScore, TOTAL_CAP)

(***************************************************************************)
(* ai-analyzer.js                                                           *)
(***************************************************************************)
MODEL_NAME == "google/gemini-3-flash-preview"

NullAnalysis ==
    [isNull |-> TRUE, riskScore |-> Undefined, riskLevel |-> "undefined",
     confidence |-> Undefined, findings |-> <<>>]

\* the verdict parseAIResponse makes up when JSON.parse throws (lines 180-192)
SyntheticVerdict ==
    [isNull |-> FALSE, riskScore |-> Num(50), riskLevel |-> "warning",
     confidence |-> Num(30),
     findings |-> << [category |-> "suspicious", severity |-> "medium",
                      description |-> "AI result could not be parsed"] >>]

\* The response text is a sequence of tokens, each with a kind: "fence open"
\* is ```json, "fence close" is ```, "object" is the text of a JSON object
\* (value is what JSON.parse makes of it), "null" is the JSON text null,
\* "braces" is a span { ... } that is not JSON, "prose" is any other text.
IsFence(token) == token.kind \in {"fence open", "fence close"}

HasBraces(token) == token.kind \in {"object", "braces"}

Least(S) == CHOOSE x \in S : \A y \in S : x <= y

Greatest(S) == CHOOSE x \in S : \A y \in S : x >= y

\* where /```json\n?([\s\S]*?)\n?```/ can start: a ```json with ``` after it
FenceOpens(content) ==
    { i \in 1..Len(content) :
        /\ content[i].kind = "fence open"
        /\ \E j \in (i + 1)..Len(content) : IsFence(content[j]) }

\* jsonMatch[1] || jsonMatch[0] for the fenced block from i to the first
\* ``` after it: an empty capture is falsy and the whole match is taken
FencedBlock(content, i, j) ==
    IF j > i + 1 THEN SubSeq(content, i + 1, j - 1) ELSE SubSeq(content, i, j)

FencedAt(content, i) ==
    FencedBlock(content, i, Least({ j \in (i + 1)..Len(content) : IsFence(content[j]) }))

\* where /\{[\s\S]*\}/ matches: from the first brace to the last
BraceTokens(content) == { i \in 1..Len(content) : HasBraces(content[i]) }

\* jsonStr (lines 173-176)
JsonStr(content) ==
    IF FenceOpens(content) # {} THEN FencedAt(content, Least(FenceOpens(content)))
    ELSE IF BraceTokens(content) # {}
    THEN SubSeq(content, Least(BraceTokens(content)), Greatest(BraceTokens(content)))
    ELSE content

\* JSON.parse: ok = FALSE is the SyntaxError it throws
JSONparse(jsonStr) ==
    IF Len(jsonStr) = 1 /\ jsonStr[1].kind \in {"object", "null"}
    THEN [ok |-> TRUE, value |-> jsonStr[1].value]
    ELSE [ok |-> FALSE, value |-> NullAnalysis]

\* the try and the catch of parseAIResponse
ParsedOrSynthetic(parsed) == IF parsed.ok THEN parsed.value ELSE SyntheticVerdict

\* a parser without the fallback, to test that the synthetic verdict depends
\* on the catch of parseAIResponse
ParseWithoutFallback(content) == JSONparse(JsonStr(content)).value

parseAIResponse(content) == ParsedOrSynthetic(JSONparse(JsonStr(content)))

\* analyzeWithAI, given what the environment does: whether the key is set,
\* how the HTTP call ends and the text of the first choice
analyzeWithAI(world) ==
    IF ~world.apiKey THEN [enabled |-> FALSE, reason |-> "API key not set"]
    ELSE IF world.http = "rejects"
    THEN [enabled |-> FALSE, error |-> "fetch failed"]
    ELSE IF world.http = "not ok"
    THEN [enabled |-> FALSE, error |-> "OpenRouter API error"]
    ELSE IF world.http = "bad body"
    THEN [enabled |-> FALSE, error |-> "Unexpected token in JSON"]
    ELSE IF world.content = <<>>
    THEN [enabled |-> FALSE, error |-> "AI response is empty"]
    ELSE [enabled |-> TRUE, model |-> MODEL_NAME,
          analysis |-> parseAIResponse(world.content)]

\* riskLevels[level] || 0
LevelRank(level) ==
    CASE level = "safe" -> 0
      [] level = "warning" -> 1
      [] level = "danger" -> 2
      [] OTHER -> 0

\* Object.keys(riskLevels).find(key => riskLevels[key] === rank)
LevelOfRank(rank) ==
    CASE rank = 0 -> "safe"
      [] rank = 1 -> "warning"
      [] rank = 2 -> "danger"

\* the fused result (lines 210-240)
FusedResult(heuristicResult, model, ai) ==
    [url        |-> heuristicResult.url,
     riskScore  |-> WeightedRound(heuristicResult.riskScore, ai.riskScore),
     riskLevel  |-> LevelOfRank(Max(LevelRank(heuristicResult.riskLevel),
                                    LevelRank(ai.riskLevel))),
     screenshot |-> heuristicResult.screenshot,
     details    |-> heuristicResult.details,
     aiAnalysis |-> [enabled    |-> TRUE,
                     model      |-> model,
                     score      |-> ai.riskScore,
                     level      |-> ai.riskLevel,
                     findings   |-> ai.findings,
                     confidence |-> ai.confidence]]

\* the result when the AI did not take part (lines 204-207)
WithAiAnalysis(heuristicResult, aiResult) ==
    [url        |-> heuristicResult.url,
     riskScore  |-> heuristicResult.riskScore,
     riskLevel  |-> heuristicResult.riskLevel,
     screenshot |-> heuristicResult.screenshot,
     details    |-> heuristicResult.details,
     aiAnalysis |-> aiResult]

\* a fusion without the test for a missing analysis, to test that the
\* heuristic result is kept when the AI did not take part
MergeWithoutAbsenceTest(heuristicResult, aiResult) ==
    FusedResult(heuristicResult, aiResult.model, aiResult.analysis)

mergeAnalysisResults(heuristicResult, aiResult) ==
    IF ~aiResult.enabled \/ aiResult.analysis.isNull
    THEN WithAiAnalysis(heuristicResult, aiResult)
    ELSE FusedResult(heuristicResult, aiResult.model, aiResult.analysis)

(***************************************************************************)
(* What the environment can do.                                            *)
(***************************************************************************)
Url(scheme, host, port) == [scheme |-> scheme, host |-> host, port |-> port]

NoUrl == Url("", <<>>, "")

ACom == << <<"a">>, <<"c", "o", "m">> >>

\* the URLs given to the full analysis
AnalyzeUrls ==
    { Url("https", ACom, ""),
      Url("https", << <<"1", "9", "2">>, <<"0">>, <<"2">>, <<"1", "0">> >>, ""),
      Url("http", << <<"1", "9", "2">>, <<"0">>, <<"2">>, <<"1", "0">> >>, "8080"),
      Url("http", << <<"a", "-", "-", "b">>, <<"T", "K">> >>, "8080"),
      Url("ftp", ACom, ""),
      Url("http", << <<"a">>, <<"7">> >>, ""),
      Url("", ACom, "") }

\* the options objects analyzeUrl is called with: by the route (which passes
\* timeout and takeScreenshot only) and by a caller that switches the AI off
OptionSets ==
    { [takeScreenshot |-> TRUE, useAI |-> "undefined"],
      [takeScreenshot |-> FALSE, useAI |-> "undefined"],
      [takeScreenshot |-> TRUE, useAI |-> "false"] }

NoOptions == [takeScreenshot |-> TRUE, useAI |-> "undefined"]

LaunchErrors == { <<"Failed", "to", "launch", "the", "browser", "process">> }

PageErrors ==
    { <<"Protocol", "error", "Target", "closed">>,
      <<"Page.setViewport", "timed", "out", "Increase", "the", "protocolTimeout">> }

NavigationErrors ==
    { NullError,
      ErrorOf(<<"Navigation", "timeout", "of", "30000", "ms", "exceeded">>),
      ErrorOf(<<"net::ERR_", "NAME_NOT_RESOLVED", "at", "url">>),
      ErrorOf(<<"Protocol", "error", "Cannot", "navigate", "to", "invalid", "URL">>) }

\* the n-th third-party host
ThirdParty(n) == Url("https", << <<"n">> \o DecimalText(n), <<"c", "o", "m">> >>, "")

\* a request log: the document itself, an own script, a request whose URL
\* does not parse, then hosts third-party requests of which the first
\* scripts are scripts and the others images
Request(u, type, originalDomain) ==
    [url |-> u, resourceType |-> type, originalDomain |-> originalDomain]

RequestLog(url, originalDomain, hosts, scripts) ==
    << Request(url, "document", originalDomain),
       Request(url, "script", originalDomain),
       Request(NoUrl, "other", originalDomain) >>
    \o [i \in 1..hosts |->
          Request(ThirdParty(i), IF i <= scripts THEN "script" ELSE "image",
                  originalDomain)]

\* the logs a page at url can leave; originalDomain is new URL(url).hostname
RequestLogs(url, originalDomain) ==
    { RequestLog(url, originalDomain, 0, 0),
      RequestLog(url, originalDomain, 3, 2),
      RequestLog(url, originalDomain, DISTINCT_HOST_LIMIT, 0),
      RequestLog(url, originalDomain, DISTINCT_HOST_LIMIT + 1, 1) }

PageTexts ==
    { <<>>,
      <<"welcome", "to", "our", "shop">>,
      <<"Login", "now", "to", "VERIFY">>,
      <<"verify", "your", "login">>,
      <<"login", "\n", "verify">>,
      <<"security", "alert">>,
      <<"login", "to", "verify", "your", "identity">> }

Form(startsWithHttp, includesHostname) ==
    [startsWithHttp |-> startsWithHttp, includesHostname |-> includesHostname]

Doms ==
    [forms : { <<>>, <<Form(FALSE, FALSE)>>, <<Form(TRUE, TRUE)>>,
               <<Form(TRUE, TRUE), Form(TRUE, FALSE)>> },
     passwordFields : {0, 1},
     hiddenFields : {0, 5, 6}]

ScriptTexts ==
    { <<>>,
      <<"console.log", "(", "1", ")">>,
      <<"eval", " ", "(", "x", ")">>,
      <<"evaluate", "(", "x", ")">>,
      <<"document", ".", "write">>,
      <<"el", ".", "innerHTML", " ", "=", "x">>,
      <<"window.location", "=", "x">>,
      <<"String", ".", "fromCharCode">>,
      <<"unescape", "(">>,
      <<"atob", "(", "x", ")">>,
      <<"eval", "(", "unescape", "(", "x", ")", ")">> }

EvaluateErrors == { "Execution context was destroyed" }

\* a page by what its three page.evaluate calls give; throws names the call
\* that throws instead
NoPage ==
    [pageText |-> <<>>, dom |-> [forms |-> <<>>, passwordFields |-> 0, hiddenFields |-> 0],
     scripts |-> <<>>, throws |-> "none"]

Pages ==
    [pageText : PageTexts, dom : Doms, scripts : ScriptTexts,
     throws : {"none", "pageText", "formInfo", "scripts"}]

Verdict(score, level) ==
    [isNull |-> FALSE, riskScore |-> score, riskLevel |-> level,
     confidence |-> Num(85),
     findings |-> << [category |-> "phishing", severity |-> "high",
                      description |-> "imitates a bank login"] >>]

\* the verdicts the model answers with, well-formed and not
Verdicts ==
    { Verdict(Num(0), "safe"), Verdict(Num(50), "warning"), Verdict(Num(90), "danger"),
      Verdict(Num(100), "safe"), Verdict(Num(10), "danger"),
      Verdict(Num(150), "danger"), Verdict(Num(90), "critical"),
      Verdict(Undefined, "undefined") }

Token(kind, value) == [kind |-> kind, value |-> value]

Prose == Token("prose", NullAnalysis)

Object(verdict) == Token("object", verdict)

FenceOpen == Token("fence open", NullAnalysis)

FenceClose == Token("fence close", NullAnalysis)

\* the texts of the first choice: none, prose, the text null, a fenced
\* object for every verdict, a bare object, an object inside prose, a fence
\* around prose, an empty fence, a fence that is not closed, two objects,
\* braces that are not JSON
Contents ==
    { <<>>, <<Prose>>, <<Token("null", NullAnalysis)>> }
    \cup { <<FenceOpen, Object(v), FenceClose>> : v \in Verdicts }
    \cup { <<Object(Verdict(Num(90), "danger"))>>,
           <<Prose, Object(Verdict(Num(90), "danger")), Prose>>,
           <<Prose, FenceOpen, Prose, FenceClose>>,
           <<FenceOpen, FenceClose>>,
           <<FenceOpen, Object(Verdict(Num(90), "danger"))>>,
           <<Object(Verdict(Num(90), "danger")), Prose, Object(Verdict(Num(0), "safe"))>>,
           <<Prose, Token("braces", NullAnalysis), Prose>> }

World(apiKey, http, content) == [apiKey |-> apiKey, http |-> http, content |-> content]

\* how the request to the AI service ends once it was sent: the HTTP call
\* and the answer
Worlds ==
    { World(TRUE, h, <<>>) : h \in {"rejects", "not ok", "bad body"} }
    \cup { World(TRUE, "ok", c) : c \in Contents }

(***************************************************************************)
(* State.                                                                   *)
(***************************************************************************)
VARIABLES
    endpoint,         \* the entry point: a route of server.js, or analyzeUrl called directly
    url,              \* the URL of the request
    urls,             \* the urls of a batch request
    options,          \* the options object given to analyzeUrl
    pc,               \* where the call stands
    page,             \* the page analyzeContent is given when it is applied on its own
    browser,          \* "null", "open" (launched) or "closed" (browser.close() done)
    networkRequests,  \* the requests the page.on('request') handler collected
    navigationError,  \* the message page.goto failed with, or null
    content,          \* score and issues of analyzeContent so far
    scores,           \* domainAnalysis, contentAnalysis, networkAnalysis, navigation, totalScore
    heuristicResult,  \* the heuristic result, once built
    aiResponse,       \* the text of the first choice of the AI service's answer
    aiResult,         \* what analyzeWithAI returned
    outcome,          \* how analyzeUrl ends: the value returned or the error thrown
    response          \* the HTTP response of the route

vars == << endpoint, url, urls, options, pc, page, browser, networkRequests,
           navigationError, content, scores, heuristicResult, aiResponse,
           aiResult, outcome, response >>

Unset == [unset |-> TRUE]

Pending == [kind |-> "pending"]

Returned(value) == [kind |-> "returned", value |-> value]

Threw(message) == [kind |-> "threw", message |-> message]

InvalidUrlMessage == <<"invalid URL", "format">>

(***************************************************************************)
(* server.js                                                                *)
(***************************************************************************)
BATCH_LIMIT == 10

\* POST /api/analyze, lines 185-233: the response to how analyzeUrl ended
AnalyzeResponse(out) ==
    IF out.kind = "returned"
    THEN [status |-> 200, success |-> TRUE, data |-> out.value]
    ELSE IF Includes(out.message, "invalid URL")
    THEN [status |-> 400, success |-> FALSE, code |-> "INVALID_URL"]
    ELSE IF Includes(out.message, "timeout") \/ Includes(out.message, "protocolTimeout")
    THEN [status |-> 504, success |-> FALSE, code |-> "ANALYSIS_TIMEOUT"]
    ELSE [status |-> 500, success |-> FALSE, code |-> "ANALYSIS_ERROR"]

\* a batch that drops the inputs that are not valid, to test that every
\* input keeps its place in the response
BatchDataValidOnly(items, results) ==
    [total   |-> Len(items),
     results |-> SelectSeq(results, LAMBDA r : r.valid),
     summary |-> [safe    |-> Len(SelectSeq(results, LAMBDA r : r.riskLevel = "safe")),
                  warning |-> Len(SelectSeq(results, LAMBDA r : r.riskLevel = "warning")),
                  danger  |-> Len(SelectSeq(results, LAMBDA r : r.riskLevel = "danger")),
                  invalid |-> 0]]

\* the data of the batch response (lines 338-347)
BatchData(items, results) ==
    [total   |-> Len(items),
     results |-> results,
     summary |-> [safe    |-> Len(SelectSeq(results, LAMBDA r : r.riskLevel = "safe")),
                  warning |-> Len(SelectSeq(results, LAMBDA r : r.riskLevel = "warning")),
                  danger  |-> Len(SelectSeq(results, LAMBDA r : r.riskLevel = "danger")),
                  invalid |-> Len(SelectSeq(results, LAMBDA r : ~r.valid))]]

\* POST /api/batch-check, lines 309-359
BatchResponse(list) ==
    IF ~list.isArray
    THEN [status |-> 400, success |-> FALSE, code |-> "MISSING_URLS"]
    ELSE IF Len(list.items) > BATCH_LIMIT
    THEN [status |-> 400, success |-> FALSE, code |-> "TOO_MANY_URLS"]
    ELSE [status |-> 200, success |-> TRUE,
          data |-> BatchData(list.items,
                             [i \in 1..Len(list.items) |-> quickCheck(list.items[i])])]

\* POST /api/quick-check, lines 281-287
QuickCheckResponse(u) == [status |-> 200, success |-> TRUE, data |-> quickCheck(u)]

(***************************************************************************)
(* Requests.                                                                *)
(***************************************************************************)
RECURSIVE SeqsUpTo(_, _)
SeqsUpTo(S, n) ==
    IF n = 0 THEN { <<>> }
    ELSE SeqsUpTo(S, n - 1)
         \cup { Append(q, e) : q \in { r \in SeqsUpTo(S, n - 1) : Len(r) = n - 1 }, e \in S }

\* the URLs of the batches
BatchUrls ==
    { Url("https", ACom, ""),
      Url("http", << <<"a", "-", "-", "b">>, <<"T", "K">> >>, "8080"),
      Url("http", << <<"7">>, <<"7">>, <<"a">>, <<"a">>, <<"a">>, <<"T", "K">> >>, "8080"),
      Url("ftp", ACom, ""),
      Url("", ACom, ""),
      Url("http", <<>>, "") }

NoList == [isArray |-> TRUE, items |-> <<>>]

BatchLists ==
    { [isArray |-> FALSE, items |-> <<>>],
      [isArray |-> TRUE, items |-> [i \in 1..(BATCH_LIMIT + 1) |-> Url("https", ACom, "")]] }
    \cup { [isArray |-> TRUE, items |-> q] : q \in SeqsUpTo(BatchUrls, MaxBatch) }

Idle ==
    /\ pc = "start"
    /\ page = NoPage
    /\ browser = "null"
    /\ networkRequests = <<>>
    /\ navigationError = NullError
    /\ content = Unset
    /\ scores = Unset
    /\ heuristicResult = Unset
    /\ aiResponse = <<>>
    /\ aiResult = Unset
    /\ outcome = Pending
    /\ response = Unset

Init ==
    /\ Idle
    /\ \/ /\ endpoint = "POST /api/analyze"
          /\ url \in AnalyzeUrls
          /\ options \in { o \in OptionSets : o.useAI = "undefined" }
          /\ urls = NoList
       \/ /\ endpoint = "analyzeUrl"
          /\ url \in AnalyzeUrls
          /\ options \in { o \in OptionSets : o.useAI = "false" }
          /\ urls = NoList
       \/ /\ endpoint = "POST /api/quick-check"
          /\ url \in UrlInputs
          /\ options = NoOptions
          /\ urls = NoList
       \/ /\ endpoint = "POST /api/batch-check"
          /\ url = NoUrl
          /\ options = NoOptions
          /\ urls \in BatchLists

(***************************************************************************)
(* analyzeUrl, one action per await.                                        *)
(***************************************************************************)
Analyzing == endpoint \in {"POST /api/analyze", "analyzeUrl"}

\* the promise settles; the route, if it is the caller, responds
Settle(out) ==
    /\ outcome' = out
    /\ pc' = "settled"
    /\ response' = IF endpoint = "POST /api/analyze" THEN AnalyzeResponse(out) ELSE Unset

\* a return or a throw inside the try: the finally block runs first
Leave(out) ==
    /\ outcome' = out
    /\ pc' = "finally"
    /\ UNCHANGED response

\* lines 260-270
AnalyzeStart ==
    /\ Analyzing
    /\ pc = "start"
    /\ \/ /\ ~isValidUrl(url)
          /\ Settle(Threw(InvalidUrlMessage))
       \/ /\ isValidUrl(url)
          /\ pc' = "launch"
          /\ UNCHANGED << outcome, response >>
    /\ UNCHANGED << page, aiResponse, endpoint, url, urls, options, browser, networkRequests,
                    navigationError, content, scores, heuristicResult, aiResult >>

\* lines 275-293: puppeteer.launch
Launch ==
    /\ pc = "launch"
    /\ \/ /\ browser' = "open"
          /\ pc' = "newPage"
          /\ UNCHANGED << outcome, response >>
       \/ /\ \E e \in LaunchErrors : Leave(Threw(e))
          /\ UNCHANGED browser
    /\ UNCHANGED << page, aiResponse, endpoint, url, urls, options, networkRequests,
                    navigationError, content, scores, heuristicResult, aiResult >>

\* line 295: browser.newPage
NewPage ==
    /\ pc = "newPage"
    /\ \/ /\ pc' = "setup"
          /\ UNCHANGED << outcome, response >>
       \/ \E e \in PageErrors : Leave(Threw(e))
    /\ UNCHANGED << page, aiResponse, endpoint, url, urls, options, browser, networkRequests,
                    navigationError, content, scores, heuristicResult, aiResult >>

\* lines 298-317: the timeouts, setUserAgent, setViewport, the request handler
SetupPage ==
    /\ pc = "setup"
    /\ \/ /\ pc' = "goto"
          /\ UNCHANGED << outcome, response >>
       \/ \E e \in PageErrors : Leave(Threw(e))
    /\ UNCHANGED << page, aiResponse, endpoint, url, urls, options, browser, networkRequests,
                    navigationError, content, scores, heuristicResult, aiResult >>

\* lines 320-333: page.goto with its catch; analyzeContent starts
Goto ==
    /\ pc = "goto"
    /\ \E e \in NavigationErrors : navigationError' = e
    /\ \E log \in RequestLogs(url, ParseURL(url).hostname) : networkRequests' = log
    /\ content' = [score |-> 0, issues |-> <<>>]
    /\ pc' = "content text"
    /\ UNCHANGED << page, aiResponse, endpoint, url, urls, options, browser, scores,
                    heuristicResult, aiResult, outcome, response >>

\* lines 357-402 and 405, 439 after the screenshot: the heuristic result is
\* built; without the AI it is returned
AfterScreenshot(sc, screenshot) ==
    \E result \in { HeuristicResult(url, sc, screenshot, navigationError) } :
        /\ heuristicResult' = result
        /\ IF options.useAI # "false"
           THEN /\ pc' = "ai"
                /\ UNCHANGED << outcome, response >>
           ELSE Leave(Returned(result))

\* the analyses and their total (lines 331-355)
Scores(domainAnalysis, contentAnalysis, networkAnalysis, navigation) ==
    [domainAnalysis  |-> domainAnalysis,
     contentAnalysis |-> contentAnalysis,
     networkAnalysis |-> networkAnalysis,
     navigation      |-> navigation,
     totalScore      |-> TotalScore(domainAnalysis, contentAnalysis,
                                    networkAnalysis, navigation.score)]

\* lines 331-359 once analyzeContent has returned: the other analyzers and
\* the total; then the screenshot, if one is wanted
AfterContent(contentAnalysis) ==
    \E sc \in { Scores(analyzeDomain(url), contentAnalysis,
                       analyzeNetworkRequests(networkRequests),
                       NavigationOutcome(navigationError)) } :
        /\ scores' = sc
        /\ IF options.takeScreenshot
           THEN /\ pc' = "screenshot"
                /\ UNCHANGED << heuristicResult, outcome, response >>
           ELSE AfterScreenshot(sc, "null")

\* lines 133-142: the page text
ContentText ==
    /\ pc = "content text"
    /\ \/ \E pageText \in PageTexts :
            /\ content' = AddRules(content, <<TextRule(pageText)>>)
            /\ pc' = "content forms"
            /\ UNCHANGED << scores, heuristicResult, outcome, response >>
       \/ \E e \in EvaluateErrors :
            /\ content' = AddError(content, e)
            /\ AfterContent(ContentOf(AddError(content, e)))
    /\ UNCHANGED << page, aiResponse, endpoint, url, urls, options, browser, networkRequests,
                    navigationError, aiResult >>

\* lines 145-174: the forms
ContentForms ==
    /\ pc = "content forms"
    /\ \/ \E dom \in Doms :
            /\ content' = AddRules(content, FormRules(FormInfo(dom)))
            /\ pc' = "content scripts"
            /\ UNCHANGED << scores, heuristicResult, outcome, response >>
       \/ \E e \in EvaluateErrors :
            /\ content' = AddError(content, e)
            /\ AfterContent(ContentOf(AddError(content, e)))
    /\ UNCHANGED << page, aiResponse, endpoint, url, urls, options, browser, networkRequests,
                    navigationError, aiResult >>

\* lines 177-193: the scripts
ContentScripts ==
    /\ pc = "content scripts"
    /\ \/ \E scripts \in ScriptTexts :
            /\ content' = AddRules(content, <<ScriptRule(scripts)>>)
            /\ AfterContent(ContentOf(AddRules(content, <<ScriptRule(scripts)>>)))
       \/ \E e \in EvaluateErrors :
            /\ content' = AddError(content, e)
            /\ AfterContent(ContentOf(AddError(content, e)))
    /\ UNCHANGED << page, aiResponse, endpoint, url, urls, options, browser, networkRequests,
                    navigationError, aiResult >>

\* lines 359-369: page.screenshot, a failure of which is ignored
Screenshot ==
    /\ pc = "screenshot"
    /\ \E screenshot \in {"base64 png", "null"} : AfterScreenshot(scores, screenshot)
    /\ UNCHANGED << page, aiResponse, endpoint, url, urls, options, browser, networkRequests,
                    navigationError, content, scores, aiResult >>

\* lines 427-439: the result after analyzeWithAI returned
AIOutcome(result, ai) ==
    IF ai.enabled THEN mergeAnalysisResults(result, ai) ELSE result

\* lines 405-425 and ai-analyzer.js 19-49: the AI step up to the request
AICall ==
    /\ pc = "ai"
    /\ \/ \* no key: analyzeWithAI returns at once
          /\ aiResult' = analyzeWithAI(World(FALSE, "ok", <<>>))
          /\ Leave(Returned(heuristicResult))
       \/ \* the request is sent and awaited
          /\ pc' = "fetch"
          /\ UNCHANGED << aiResult, outcome, response >>
       \/ \* page.url() or the call itself throws: caught at line 433
          /\ Leave(Returned(heuristicResult))
          /\ UNCHANGED aiResult
    /\ UNCHANGED << page, aiResponse, endpoint, url, urls, options, browser, networkRequests,
                    navigationError, content, scores, heuristicResult >>

\* ai-analyzer.js 49-79 and lines 427-439: the request ends, by an answer or
\* by a rejection; nothing in the code ends it otherwise
AIResponse ==
    /\ pc = "fetch"
    /\ \E world \in Worlds :
         /\ aiResponse' = world.content
         /\ aiResult' = analyzeWithAI(world)
         /\ Leave(Returned(AIOutcome(heuristicResult, analyzeWithAI(world))))
    /\ UNCHANGED << page, endpoint, url, urls, options, browser, networkRequests,
                    navigationError, content, scores, heuristicResult >>

\* an exit that settles the promise without closing the browser, to test
\* that the release of the browser depends on the finally block
FinallyWithoutClose ==
    /\ pc = "finally"
    /\ Settle(outcome)
    /\ UNCHANGED << page, aiResponse, endpoint, url, urls, options, browser, networkRequests,
                    navigationError, content, scores, heuristicResult, aiResult >>

\* lines 441-445: the finally block, after which the promise settles
Finally ==
    /\ pc = "finally"
    /\ browser' = IF browser # "null" THEN "closed" ELSE browser
    /\ Settle(outcome)
    /\ UNCHANGED << page, aiResponse, endpoint, url, urls, options, networkRequests,
                    navigationError, content, scores, heuristicResult, aiResult >>

(***************************************************************************)
(* The routes without a browser.                                           *)
(***************************************************************************)
QuickCheckRoute ==
    /\ endpoint = "POST /api/quick-check"
    /\ pc = "start"
    /\ response' = QuickCheckResponse(url)
    /\ pc' = "settled"
    /\ UNCHANGED << page, aiResponse, endpoint, url, urls, options, browser, networkRequests,
                    navigationError, content, scores, heuristicResult, aiResult,
                    outcome >>

BatchCheckRoute ==
    /\ endpoint = "POST /api/batch-check"
    /\ pc = "start"
    /\ response' = BatchResponse(urls)
    /\ pc' = "settled"
    /\ UNCHANGED << page, aiResponse, endpoint, url, urls, options, browser, networkRequests,
                    navigationError, content, scores, heuristicResult, aiResult,
                    outcome >>

Next ==
    \/ AnalyzeStart
    \/ Launch
    \/ NewPage
    \/ SetupPage
    \/ Goto
    \/ ContentText
    \/ ContentForms
    \/ ContentScripts
    \/ Screenshot
    \/ AICall
    \/ AIResponse
    \/ Finally
    \/ QuickCheckRoute
    \/ BatchCheckRoute

Spec == Init /\ [][Next]_vars

(***************************************************************************)
(* mergeAnalysisResults as a function of its own: every heuristic score    *)
(* with its level, merged with every verdict whose score is an integer in  *)
(* 0..100 and whose level is one of the three.  The fusion reads the       *)
(* riskScore and riskLevel of the heuristic result and copies the rest.    *)
(***************************************************************************)
RiskLevels == {"safe", "warning", "danger"}

NoAnalysis == [score |-> 0, issues |-> <<>>]

HeuristicOfScore(score) ==
    HeuristicResult(Url("https", ACom, ""),
                    [domainAnalysis  |-> NoAnalysis,
                     contentAnalysis |-> NoAnalysis,
                     networkAnalysis |-> analyzeNetworkRequests(<<>>),
                     navigation      |-> NavigationOutcome(NullError),
                     totalScore      |-> score],
                    "null", NullError)

InitMerge ==
    /\ endpoint = "mergeAnalysisResults"
    /\ url = Url("https", ACom, "")
    /\ urls = NoList
    /\ options = NoOptions
    /\ pc = "merge"
    /\ page = NoPage
    /\ browser = "null"
    /\ networkRequests = <<>>
    /\ navigationError = NullError
    /\ content = Unset
    /\ scores = Unset
    /\ heuristicResult \in { HeuristicOfScore(h) : h \in 0..TOTAL_CAP }
    /\ aiResult \in { [enabled |-> TRUE, model |-> MODEL_NAME,
                      analysis |-> Verdict(Num(a), level)] :
                      a \in 0..TOTAL_CAP, level \in RiskLevels }
    /\ aiResponse = <<>>
    /\ outcome = Pending
    /\ response = Unset

Merge ==
    /\ pc = "merge"
    /\ outcome' = Returned(mergeAnalysisResults(heuristicResult, aiResult))
    /\ pc' = "merged"
    /\ UNCHANGED << page, aiResponse, endpoint, url, urls, options, browser, networkRequests,
                    navigationError, content, scores, heuristicResult, aiResult,
                    response >>

NextMerge == Merge

SpecMerge == InitMerge /\ [][NextMerge]_vars

(***************************************************************************)
(* analyzeDomain and analyzeContent as functions of their own: every URL   *)
(* of a family of valid URLs, and every page.                               *)
(***************************************************************************)
\* analyzeContent, lines 127-194, for a page: the three steps in order, the
\* catch at the step that throws
analyzeContent(doc) ==
    ContentOf(
        IF doc.throws = "pageText"
        THEN AddError(NoAnalysis, "Execution context was destroyed")
        ELSE IF doc.throws = "formInfo"
        THEN AddError(AddRules(NoAnalysis, <<TextRule(doc.pageText)>>),
                      "Execution context was destroyed")
        ELSE IF doc.throws = "scripts"
        THEN AddError(AddRules(AddRules(NoAnalysis, <<TextRule(doc.pageText)>>),
                               FormRules(FormInfo(doc.dom))),
                      "Execution context was destroyed")
        ELSE AddRules(AddRules(AddRules(NoAnalysis, <<TextRule(doc.pageText)>>),
                               FormRules(FormInfo(doc.dom))),
                      <<ScriptRule(doc.scripts)>>))

\* the host 192.0.2.10
DocumentationAddress == << <<"1", "9", "2">>, <<"0">>, <<"2">>, <<"1", "0">> >>

\* the URLs analyzeDomain is applied to: no, MaxSub - 1 or MaxSub leading
\* labels before two labels, or the host 192.0.2.10, both web schemes,
\* every port; analyzeDomain is only called with a URL that passed isValidUrl
RuleUrls ==
    { u \in [scheme : {"http", "https"},
             host : { Repeat(<<"a">>, k) \o <<l1, l2>> :
                        k \in {0, MaxSub - 1, MaxSub}, l1 \in Labels, l2 \in Labels }
                    \cup { DocumentationAddress },
             port : Ports] : isValidUrl(u) }

InitRules ==
    /\ urls = NoList
    /\ options = NoOptions
    /\ pc = "call"
    /\ browser = "null"
    /\ networkRequests = <<>>
    /\ navigationError = NullError
    /\ content = Unset
    /\ scores = Unset
    /\ heuristicResult = Unset
    /\ aiResponse = <<>>
    /\ aiResult = Unset
    /\ outcome = Pending
    /\ response = Unset
    /\ \/ /\ endpoint = "analyzeDomain"
          /\ url \in RuleUrls
          /\ page = NoPage
       \/ /\ endpoint = "analyzeContent"
          /\ url = Url("https", ACom, "")
          /\ page \in Pages

AnalyzeDomain ==
    /\ endpoint = "analyzeDomain"
    /\ pc = "call"
    /\ outcome' = Returned(analyzeDomain(url))
    /\ pc' = "returned"
    /\ UNCHANGED << page, aiResponse, endpoint, url, urls, options, browser, networkRequests,
                    navigationError, content, scores, heuristicResult, aiResult,
                    response >>

AnalyzeContent ==
    /\ endpoint = "analyzeContent"
    /\ pc = "call"
    /\ outcome' = Returned(analyzeContent(page))
    /\ pc' = "returned"
    /\ UNCHANGED << page, aiResponse, endpoint, url, urls, options, browser, networkRequests,
                    navigationError, content, scores, heuristicResult, aiResult,
                    response >>

NextRules == AnalyzeDomain \/ AnalyzeContent

SpecRules == InitRules /\ [][NextRules]_vars

(***************************************************************************)
(* Properties.                                                              *)
(***************************************************************************)
\* analyzeUrl has settled
Done == Analyzing /\ pc = "settled"

\* analyzeUrl has returned a result
HasResult == Done /\ outcome.kind = "returned"

\* the AI took part: analyzeWithAI answered with an analysis
Participated == aiResult # Unset /\ aiResult.enabled /\ ~aiResult.analysis.isNull

\* the URL is malformed or its scheme is not http or https
Malformed(u) ==
    LET parsed == ParseURL(u)
    IN  ~parsed.ok \/ parsed.protocol \notin {"http:", "https:"}

\* the threshold bucket of a score, as the specification states it
Bucket(score) ==
    IF score <= 30 THEN "safe" ELSE IF score <= 70 THEN "warning" ELSE "danger"

\* the more severe of two levels under safe < warning < danger
MoreSevere(a, b) ==
    IF "danger" \in {a, b} THEN "danger"
    ELSE IF "warning" \in {a, b} THEN "warning"
    ELSE "safe"

\* C1: every result analyzeUrl returns has an integer riskScore in 0..100 and
\* a riskLevel that is the threshold bucket of that riskScore, whatever the
\* rendering and the AI did.
C1_ScoreInRangeAndLevelItsBucket ==
    HasResult =>
        /\ outcome.value.riskScore.t = "number"
        /\ outcome.value.riskScore.v \in 0..100
        /\ outcome.value.riskLevel = Bucket(outcome.value.riskScore.v)

\* C2: when the AI took part with an integer score a in 0..100 and the
\* heuristic score is h in 0..100, the merged riskScore is the integer n
\* nearest to 0.4 h + 0.6 a, that is n - 1/2 <= 0.4 h + 0.6 a < n + 1/2; for
\* h = 20 and a = 90 it is 62.
C2_FusedScoreIsWeightedRound ==
    pc = "merged" =>
        LET h == heuristicResult.riskScore.v
            a == aiResult.analysis.riskScore.v
            n == outcome.value.riskScore
        IN  /\ n.t = "number"
            /\ 10 * n.v - 5 <= 4 * h + 6 * a
            /\ 4 * h + 6 * a < 10 * n.v + 5
            /\ (h = 20 /\ a = 90) => n.v = 62

\* C2, its case: heuristic score 20 merged with AI score 90 gives 62
C2_Witness ==
    /\ pc = "merged"
    /\ heuristicResult.riskScore = Num(20)
    /\ aiResult.analysis.riskScore = Num(90)
    /\ outcome.value.riskScore = Num(62)

\* C3: when the AI took part, the final riskLevel is one of the three levels
\* and never less severe than the heuristic level; when the AI's level is one
\* of the three it is the more severe of the heuristic level and the AI's
\* level, so never less severe than the AI's either, whatever bucket the
\* fused score falls in.
C3_FinalLevelIsMoreSevere ==
    (HasResult /\ Participated) =>
        /\ outcome.value.riskLevel \in RiskLevels
        /\ MoreSevere(outcome.value.riskLevel, heuristicResult.riskLevel)
             = outcome.value.riskLevel
        /\ aiResult.analysis.riskLevel \in RiskLevels =>
             outcome.value.riskLevel
               = MoreSevere(heuristicResult.riskLevel, aiResult.analysis.riskLevel)

\* C3, its case: a safe heuristic result and a danger verdict give danger,
\* although the fused score is in the warning bucket
C3_Witness ==
    /\ HasResult /\ Participated
    /\ heuristicResult.riskLevel = "safe"
    /\ aiResult.analysis.riskLevel = "danger"
    /\ outcome.value.riskLevel = "danger"
    /\ outcome.value.riskScore.t = "number"
    /\ Bucket(outcome.value.riskScore.v) = "warning"

\* C4: whenever the heuristic result was built and the AI did not take part
\* (useAI false, no key, the HTTP call fails or is not OK, the answer is
\* empty, or the AI step throws), analyzeUrl returns, and the riskScore and
\* riskLevel it returns are those of the heuristic result.
C4_HeuristicKeptWithoutAI ==
    (Done /\ heuristicResult # Unset /\ ~Participated) =>
        /\ outcome.kind = "returned"
        /\ outcome.value.riskScore = heuristicResult.riskScore
        /\ outcome.value.riskLevel = heuristicResult.riskLevel
        /\ outcome.value.riskScore = Num(scores.totalScore)
        /\ outcome.value.riskLevel = Bucket(scores.totalScore)

\* C4, its case: the HTTP call failed and a danger heuristic result came back
C4_Witness ==
    /\ HasResult
    /\ aiResult = [enabled |-> FALSE, error |-> "fetch failed"]
    /\ outcome.value.riskLevel = "danger"
    /\ outcome.value.riskScore = heuristicResult.riskScore

\* C5: the domain score is in 0..40, the content score in 0..50, the network
\* score in 0..20, the navigation score in 0..10, and the heuristic riskScore
\* is min(domain + content + network + navigation, 100); the quick check's
\* domain score is in 0..40 as well.
C5_ComponentBoundsAndTotal ==
    /\ scores # Unset =>
        /\ scores.domainAnalysis.score \in 0..40
        /\ scores.contentAnalysis.score \in 0..50
        /\ scores.networkAnalysis.score \in 0..20
        /\ scores.navigation.score \in 0..10
        /\ LET sum == scores.domainAnalysis.score + scores.contentAnalysis.score
                      + scores.networkAnalysis.score + scores.navigation.score
           IN  scores.totalScore = IF sum <= 100 THEN sum ELSE 100
    /\ heuristicResult # Unset =>
        /\ heuristicResult.riskScore = Num(scores.totalScore)
        /\ heuristicResult.details.domain.score = scores.domainAnalysis.score
        /\ heuristicResult.details.content.score = scores.contentAnalysis.score
        /\ heuristicResult.details.network.score = scores.networkAnalysis.score
        /\ heuristicResult.details.navigation.score = scores.navigation.score
    /\ (endpoint = "POST /api/quick-check" /\ pc = "settled") =>
        response.data.riskScore \in 0..40

\* C5, its case: every analyzer is at its cap and the sum, 120, is cut to 100
C5_Witness ==
    /\ heuristicResult # Unset
    /\ scores.domainAnalysis.score = 40
    /\ scores.contentAnalysis.score = 50
    /\ scores.networkAnalysis.score = 20
    /\ scores.navigation.score = 10
    /\ heuristicResult.riskScore = Num(100)

\* C6: for every valid URL, quickCheck's riskScore is the details.domain.score
\* of the result analyzeUrl returns for that URL, and quickCheck's riskLevel
\* is the threshold bucket of that score; the answer of the quick-check route
\* is the domain analysis of its URL bucketed the same way.
C6_QuickCheckMatchesDomainScore ==
    /\ HasResult =>
        LET quick == quickCheck(url)
        IN  /\ quick.valid
            /\ quick.riskScore = outcome.value.details.domain.score
            /\ quick.riskLevel = Bucket(outcome.value.details.domain.score)
    /\ (endpoint = "POST /api/quick-check" /\ pc = "settled" /\ ~Malformed(url)) =>
        LET domainAnalysis == analyzeDomain(url)
        IN  /\ response.data.valid
            /\ response.data.riskScore = domainAnalysis.score
            /\ response.data.riskLevel = Bucket(domainAnalysis.score)

\* C6, its case: a full analysis returned for a URL whose domain score, 40,
\* is the quick check's score, and whose level differs from the quick check's
C6_Witness ==
    /\ HasResult
    /\ outcome.value.details.domain.score = 40
    /\ quickCheck(url).riskScore = 40
    /\ quickCheck(url).riskLevel = "warning"
    /\ outcome.value.riskLevel = "danger"

\* C7: a batch of at most 10 inputs is answered with total = the number of
\* inputs and one result per input in input order, each the quick check of
\* its input; an input that fails validation gets valid = FALSE and the
\* others are scored; safe + warning + danger + invalid = total, and invalid
\* is the number of inputs that fail validation.
C7_BatchOneResultPerInput ==
    (endpoint = "POST /api/batch-check" /\ pc = "settled" /\ urls.isArray
        /\ Len(urls.items) <= 10) =>
        /\ response.status = 200
        /\ response.data.total = Len(urls.items)
        /\ Len(response.data.results) = Len(urls.items)
        /\ \A i \in 1..Len(urls.items) :
             /\ response.data.results[i].url = urls.items[i]
             /\ response.data.results[i].valid = ~Malformed(urls.items[i])
             /\ ~Malformed(urls.items[i]) =>
                  /\ response.data.results[i].riskScore
                       = analyzeDomain(urls.items[i]).score
                  /\ response.data.results[i].riskLevel \in RiskLevels
        /\ response.data.summary.invalid
             = Cardinality({ i \in 1..Len(urls.items) : Malformed(urls.items[i]) })
        /\ response.data.summary.safe + response.data.summary.warning
             + response.data.summary.danger + response.data.summary.invalid
             = response.data.total

\* C7, its case: three inputs of which the second is not valid
C7_Witness ==
    /\ endpoint = "POST /api/batch-check" /\ pc = "settled"
    /\ urls.isArray /\ Len(urls.items) = 3
    /\ ~Malformed(urls.items[1]) /\ Malformed(urls.items[2]) /\ ~Malformed(urls.items[3])
    /\ response.data.total = 3
    /\ response.data.summary.invalid = 1
    /\ response.data.results[1].valid /\ response.data.results[3].valid
    /\ ~response.data.results[2].valid

\* C8: for every valid http/https URL analyzeUrl returns a result, whatever
\* fails; it throws only for a URL that fails validation.
C8_ValidUrlAlwaysGetsResult ==
    (Done /\ ~Malformed(url)) => outcome.kind = "returned"

\* C9: analyzeUrl never settles, by a return or by a throw, with a launched
\* browser still open: a browser that was launched is closed by then.
C9_BrowserClosedOnEveryExit ==
    pc = "settled" => browser # "open"

\* C9, its case: an exception after the launch, and the browser is closed
C9_Witness ==
    /\ Done
    /\ outcome.kind = "threw"
    /\ browser = "closed"

\* C10: for a URL that is malformed or whose scheme is not http or https,
\* analyzeUrl launches no browser and runs no analyzer, and ends by throwing
\* the invalid-URL error with no result; quickCheck answers valid = FALSE,
\* riskScore 0, riskLevel "unknown" and a record without an issues field.
C10_InvalidUrlRejectedUpFront ==
    /\ (Analyzing /\ Malformed(url)) =>
        /\ browser = "null"
        /\ networkRequests = <<>>
        /\ content = Unset /\ scores = Unset
        /\ heuristicResult = Unset /\ aiResult = Unset
        /\ pc \in {"start", "settled"}
        /\ pc = "settled" => outcome = Threw(InvalidUrlMessage)
    /\ (endpoint = "POST /api/quick-check" /\ pc = "settled" /\ Malformed(url)) =>
        /\ response.data.valid = FALSE
        /\ response.data.riskScore = 0
        /\ response.data.riskLevel = "unknown"
        /\ DOMAIN response.data = {"url", "valid", "riskScore", "riskLevel", "message"}

\* C10, its case: analyzeUrl has thrown for a URL of another scheme
C10_Witness ==
    /\ Done
    /\ url.scheme = "ftp"
    /\ outcome = Threw(InvalidUrlMessage)
    /\ browser = "null"
    /\ response.status = 400

\* the answer has text, and either no part of the text is JSON or what
\* parseAIResponse hands to JSON.parse is rejected
Unparsable(text) ==
    /\ text # <<>>
    /\ \/ \A i \in 1..Len(text) : text[i].kind \notin {"object", "null"}
       \/ ~JSONparse(JsonStr(text)).ok

\* C11: when the AI answers with non-empty text that cannot be parsed as
\* JSON, analyzeWithAI reports the synthetic verdict (riskScore 50, riskLevel
\* warning, confidence 30, one finding of category suspicious and severity
\* medium), and analyzeUrl returns a fused result: its aiAnalysis carries
\* confidence 30 and that finding, its riskScore is the heuristic score fused
\* with 50 and its riskLevel the more severe of the heuristic level and
\* warning.
C11_UnparsableTextGivesSyntheticVerdict ==
    (Done /\ Unparsable(aiResponse)) =>
        /\ aiResult.enabled
        /\ aiResult.analysis.riskScore = Num(50)
        /\ aiResult.analysis.riskLevel = "warning"
        /\ aiResult.analysis.confidence = Num(30)
        /\ Len(aiResult.analysis.findings) = 1
        /\ aiResult.analysis.findings[1].category = "suspicious"
        /\ aiResult.analysis.findings[1].severity = "medium"
        /\ outcome.kind = "returned"
        /\ outcome.value.aiAnalysis.enabled
        /\ outcome.value.aiAnalysis.confidence = Num(30)
        /\ outcome.value.aiAnalysis.findings = aiResult.analysis.findings
        /\ outcome.value.riskScore.t = "number"
        /\ outcome.value.riskScore.v
             = (4 * heuristicResult.riskScore.v + 300 + 5) \div 10
        /\ outcome.value.riskLevel = MoreSevere(heuristicResult.riskLevel, "warning")

\* C11, its case: the answer is a fence around prose, and a safe heuristic
\* result comes back as a warning with confidence 30
C11_Witness ==
    /\ Done
    /\ aiResponse = <<Prose, FenceOpen, Prose, FenceClose>>
    /\ heuristicResult.riskLevel = "safe"
    /\ outcome.kind = "returned"
    /\ outcome.value.riskLevel = "warning"
    /\ outcome.value.aiAnalysis.confidence = Num(30)

\* a verdict as the specification types it: riskScore an integer in 0..100
\* and riskLevel one of the three levels
WellFormed(verdict) ==
    /\ verdict.riskScore.t = "number"
    /\ verdict.riskScore.v \in 0..100
    /\ verdict.riskLevel \in RiskLevels

\* C12: whatever the AI answers, the returned riskScore is an integer in
\* 0..100, and an answer that parses as JSON but whose riskScore or riskLevel
\* is missing or invalid is not fused: the result then keeps the heuristic
\* riskScore and riskLevel.
C12_IllFormedVerdictNeverFused ==
    HasResult =>
        /\ outcome.value.riskScore.t = "number"
        /\ outcome.value.riskScore.v \in 0..100
        /\ (aiResult # Unset /\ aiResult.enabled /\ ~WellFormed(aiResult.analysis)) =>
             /\ outcome.value.riskScore = heuristicResult.riskScore
             /\ outcome.value.riskLevel = heuristicResult.riskLevel

(***************************************************************************)
(* The full analysis with its scheduling: every step of analyzeUrl is      *)
(* taken once it can be (the awaits on the browser end by an answer or by  *)
(* puppeteer's own timeouts), while the answer of the AI service is up to  *)
(* the service: fetch is called without a signal or a timeout.             *)
(***************************************************************************)
InitLive ==
    /\ Idle
    /\ endpoint = "POST /api/analyze"
    /\ url \in { Url("https", ACom, ""), Url("ftp", ACom, "") }
    /\ options \in { o \in OptionSets : o.useAI = "undefined" }
    /\ urls = NoList

ProgramStep ==
    \/ AnalyzeStart
    \/ Launch
    \/ NewPage
    \/ SetupPage
    \/ Goto
    \/ ContentText
    \/ ContentForms
    \/ ContentScripts
    \/ Screenshot
    \/ AICall
    \/ Finally

NextLive == ProgramStep \/ AIResponse

\* the places of analyzeUrl
Places ==
    { "start", "launch", "newPage", "setup", "goto", "content text",
      "content forms", "content scripts", "screenshot", "ai", "fetch",
      "finally", "settled" }

\* A step of ProgramStep, told by pc alone: ProgramStep can be taken exactly
\* when analyzeUrl is neither awaiting the AI service nor settled, and each
\* of its steps moves pc.  Weak fairness of Proceed on pc is weak fairness
\* of ProgramStep.
Proceed ==
    /\ pc \notin {"fetch", "settled"}
    /\ pc' \in Places \ {pc}

SpecLive == InitLive /\ [][NextLive]_vars /\ WF_pc(Proceed)

\* C13: every call of analyzeUrl eventually settles, with its browser not
\* left open, even if the AI service never answers.
C13_AnalysisEventuallySettles ==
    <>(pc = "settled" /\ browser # "open")

\* C14: whenever the AI did not take part in a full analysis, the result
\* analyzeUrl returns is the heuristic result with an aiAnalysis field that
\* records why (a reason or an error).
C14_AiAnalysisRecordsReason ==
    (Done /\ heuristicResult # Unset /\ ~Participated) =>
        /\ outcome.kind = "returned"
        /\ outcome.value.riskScore = heuristicResult.riskScore
        /\ "aiAnalysis" \in DOMAIN outcome.value
        /\ \/ "reason" \in DOMAIN outcome.value.aiAnalysis
           \/ "error" \in DOMAIN outcome.value.aiAnalysis

\* C17: the navigation score is 10 with the issue "page load timeout" for an
\* error that tells of a timeout, 5 with the issue "network error" for an
\* error that tells of a network failure, and 0 with no issue only when
\* there was no error: every navigation error leaves a score and an issue.
C17_EveryNavigationErrorScores ==
    scores # Unset =>
        /\ navigationError.isNull =>
             scores.navigation = [score |-> 0, issues |-> <<>>]
        /\ ~navigationError.isNull =>
             \/ scores.navigation = [score |-> 10, issues |-> <<"page load timeout">>]
             \/ scores.navigation = [score |-> 5, issues |-> <<"network error">>]

\* the points of a rule that triggers when the condition holds
PointsIf(condition, points) == IF condition THEN points ELSE 0

\* the phrase patterns that match the text
PhrasesMatching(text) ==
    { p \in 1..Len(PHISHING_PATTERNS) :
        MatchesPair(text, PHISHING_PATTERNS[p][1], PHISHING_PATTERNS[p][2]) }

\* C15: analyzeDomain and analyzeContent add the points of every rule that
\* triggers, each rule once however many of its patterns match, and cap the
\* sum: the domain score is min(25 for an IPv4-literal host + 15 for a
\* suspicious domain pattern + 10 for more than three subdomains + 15 for a
\* scheme other than https + 10 for a non-standard port, 40) and the content
\* score of a page inspected without a failure is min(20 for a phishing
\* phrase + 10 for a password field + 25 for an external form action + 10
\* for more than five hidden fields + 15 for a script pattern, 50).  So
\* https://192.0.2.10 without a port scores 25, level safe, and a page with
\* only a password field and an external form action scores 35.
C15_ScoreIsCappedSumOfTriggeredRules ==
    pc = "returned" =>
        /\ endpoint = "analyzeDomain" =>
              LET parsed == ParseURL(url)
                  expected ==
                      PointsIf(IsIPv4Literal(parsed.hostname), 25)
                      + PointsIf(\/ HasLongDigitRun(parsed.hostname)
                                 \/ HasDoubleHyphen(parsed.hostname)
                                 \/ HasFreeTld(parsed.hostname)
                                 \/ HasCyrillic(parsed.hostname), 15)
                      + PointsIf(Len(SplitDots(parsed.hostname)) - 2 > 3, 10)
                      + PointsIf(parsed.protocol # "https:", 15)
                      + PointsIf(parsed.port \notin {"", "80", "443"}, 10)
              IN  /\ outcome.value.score = IF expected < 40 THEN expected ELSE 40
                  /\ url = Url("https", DocumentationAddress, "") =>
                        /\ outcome.value.score = 25
                        /\ determineRiskLevel(outcome.value.score) = "safe"
        /\ endpoint = "analyzeContent" /\ page.throws = "none" =>
              LET external == \E i \in 1..Len(page.dom.forms) :
                                  /\ page.dom.forms[i].startsWithHttp
                                  /\ ~page.dom.forms[i].includesHostname
                  expected ==
                      PointsIf(PhrasesMatching(page.pageText) # {}, 20)
                      + PointsIf(page.dom.passwordFields > 0, 10)
                      + PointsIf(external, 25)
                      + PointsIf(page.dom.hiddenFields > 5, 10)
                      + PointsIf(MatchesMalicious(page.scripts), 15)
              IN  /\ outcome.value.score = IF expected < 50 THEN expected ELSE 50
                  /\ ( /\ PhrasesMatching(page.pageText) = {}
                       /\ page.dom.passwordFields > 0
                       /\ external
                       /\ page.dom.hiddenFields <= 5
                       /\ ~MatchesMalicious(page.scripts) ) =>
                        outcome.value.score = 35

\* analyzeContent has returned for a page whose text matches several phrase
\* patterns and that triggers no other rule: the score is 20
C15_Witness ==
    /\ pc = "returned"
    /\ endpoint = "analyzeContent"
    /\ page.throws = "none"
    /\ Cardinality(PhrasesMatching(page.pageText)) > 1
    /\ outcome.value.score = 20

\* the analysis-error entries analyzeContent can report
ErrorIssues == { "content analysis error: " \o e : e \in EvaluateErrors }

\* the points of the rule that reports the issue
IssuePoints(issue) ==
    CASE issue = "suspected phishing phrasing" -> 20
      [] issue = "password field present" -> 10
      [] issue = "form submits to external server" -> 25
      [] issue = "many hidden fields (6)" -> 10
      [] issue = "suspicious script pattern" -> 15
      [] OTHER -> 0

RECURSIVE PointsOfIssues(_)
PointsOfIssues(issues) ==
    IF issues = <<>> THEN 0
    ELSE IssuePoints(Head(issues)) + PointsOfIssues(Tail(issues))

\* a step of analyzeContent has failed: its issues tell of an analysis error
ContentFailed ==
    /\ content # Unset
    /\ \E i \in 1..Len(content.issues) : content.issues[i] \in ErrorIssues

\* what holds once a step of analyzeContent has failed
AfterContentFailure ==
    ContentFailed =>
        /\ content.issues[Len(content.issues)] \in ErrorIssues
        /\ \A i \in 1..(Len(content.issues) - 1) : IssuePoints(content.issues[i]) > 0
        /\ pc \in {"screenshot", "ai", "fetch", "finally", "settled"}
        /\ scores # Unset
        /\ scores.contentAnalysis.issues = content.issues
        /\ scores.contentAnalysis.score
             = LET sum == PointsOfIssues(SubSeq(content.issues, 1, Len(content.issues) - 1))
               IN  IF sum < 50 THEN sum ELSE 50
        /\ scores.totalScore
             = LET sum == scores.domainAnalysis.score + scores.contentAnalysis.score
                          + scores.networkAnalysis.score + scores.navigation.score
               IN  IF sum < 100 THEN sum ELSE 100
        /\ outcome.kind # "threw"
        /\ pc = "settled" =>
             /\ outcome.kind = "returned"
             /\ outcome.value.details.content = scores.contentAnalysis
             /\ outcome.value.details.domain = scores.domainAnalysis
             /\ outcome.value.details.network = scores.networkAnalysis

\* the step at which analyzeContent fails leaves the results of the other
\* analyzers for the URL and the requests collected
ContentFailureStep ==
    (~ContentFailed /\ ContentFailed') =>
        /\ scores'.domainAnalysis = analyzeDomain(url)
        /\ scores'.networkAnalysis = analyzeNetworkRequests(networkRequests)
        /\ url' = url
        /\ networkRequests' = networkRequests

\* C16: analyzeContent never raises.  When one of its steps fails its result
\* has the analysis-error entry as the last issue, the score is the capped
\* sum of the points of the rules reported before the failure (the failure
\* adds no points and no rule is scored after it), the domain analysis, the
\* network analysis and the total are computed all the same, and analyzeUrl
\* goes on to return a result with that content analysis.
C16_ContentFailureScoresNothingAndGoesOn ==
    []AfterContentFailure /\ [][ContentFailureStep]_vars

\* the form inspection failed on a page whose text had a phishing phrase:
\* the analysis has returned with the 20 points of the phrase alone
C16_Witness ==
    /\ Done
    /\ outcome.kind = "returned"
    /\ outcome.value.details.content.score = 20
    /\ outcome.value.details.content.issues
         = <<"suspected phishing phrasing",
             "content analysis error: Execution context was destroyed">>


=============================================================================
